---- MODULE Spec2Model ----
(***************************************************************************)
(* The agent turn loop of BrowserUse (openai.go) together with the action  *)
(* dispatcher computerCall and the Browser wrapper (browser.go).           *)
(*                                                                         *)
(* One run of BrowserUse is modelled as a sequential process whose         *)
(* position is pc.  The Decision Service (Responses) and the browser are   *)
(* collaborators: every result they can hand back (a response of any       *)
(* shape, an error, a panic of a rod Must* call) is a nondeterministic     *)
(* choice.  The context is cancelled by its deadline or from outside.      *)
(***************************************************************************)
EXTENDS Integers, Sequences, FiniteSets, TLC

\* ------------------------------------------------------------------ bounds
MaxTurnsBound == 2
MaxItems == 2
MaxDeadline == 1
MaxLatency == 2
MaxKeys == 3

\* -------------------------------------------------------- program constants
PacingDelay == 1
WaitDelay == 3

VARIABLES
    pc,             \* position of BrowserUse
    maxTurns,       \* parameter maxTurns
    i,              \* loop counter
    responseID,     \* var responseID string   (0 is "")
    callID,         \* var callID string       (0 is "")
    callResp,       \* var callResp *ComputerOutput
    resp,           \* response of the current turn
    idx,            \* position of the range loop over response.Output
    finalOutput,    \* finalOutput of the current turn
    browser,        \* the Browser: connected, page, calls of Open and Close
    deferred,       \* defer browser.Close() has been registered
    turnLog,        \* browser calls made since the last response arrived
    deadline,       \* the context's deadline (NoDeadline: it has none)
    now,            \* time elapsed, saturating at the deadline
    cancelled,      \* the context's cancel function has been called
    lastReq,        \* the request most recently handed to Responses
    reqCount,       \* number of calls of Responses
    sentCallIDs,    \* call ids of the computer_call_output inputs sent, in order
    svc,            \* the service's side: the response id it last returned
    env,            \* what the collaborators have done so far in this run
    outcome,        \* exit path taken
    ret             \* what the caller of BrowserUse receives

vars == <<pc, maxTurns, i, responseID, callID, callResp, resp, idx, finalOutput,
          browser, deferred, turnLog, deadline, now, cancelled, lastReq, reqCount,
          sentCallIDs, svc, env, outcome, ret>>

\* ------------------------------------------------------------- data shapes
\* A nil *Action is the kind "".
NoAction == ""

ActionKinds == {"screenshot", "type", "click", "scroll", "keypress", "wait", "drag"}

\* Elements of OutputItem.Content ([]any) after json.Unmarshal: a JSON string
\* or a JSON object holding a ContentItem.
StrElem(s) == [t |-> "string", text |-> s]
ObjElem(s) == [t |-> "object", text |-> s]

\* fmt.Sprint of one element of Content.
Sprint(e) ==
    IF e.t = "string" THEN e.text
    ELSE "map[annotations:[] text:" \o e.text \o " type:output_text]"

\* The OutputItem shapes the service can emit (CallID is filled in when the
\* response is issued).  hasContent FALSE is Content == nil.
ActionItem(kind, safety) ==
    [action |-> kind, callID |-> 0, safety |-> safety, role |-> "",
     hasContent |-> FALSE, content |-> <<>>, keys |-> <<>>]

MessageItem(role, content) ==
    [action |-> NoAction, callID |-> 0, safety |-> FALSE, role |-> role,
     hasContent |-> TRUE, content |-> content, keys |-> <<>>]

\* A keypress action with its Action.Keys, each key name a sequence of
\* characters.
KeypressItem(keys) == [ActionItem("keypress", FALSE) EXCEPT !.keys = keys]

\* The kinds the turn loop is run with: one whose primitive can panic, the
\* one that sleeps and an unrecognized one.
LoopKinds == {"click", "wait", "drag"}

ItemShapes ==
    {ActionItem(k, FALSE) : k \in LoopKinds}
    \cup {ActionItem("click", TRUE)}
    \cup {MessageItem("assistant", c) :
            c \in {<<>>, <<StrElem("")>>, <<ObjElem("hello")>>}}
    \cup {MessageItem("user", <<ObjElem("hello")>>)}

\* nil *ComputerOutput
NilOutput == [Type |-> "nil", ImageURL |-> [scheme |-> "", data |-> 0],
              CurrentURL |-> "", forCall |-> 0]

NoResponse == [ID |-> 0, Output |-> <<>>]
NoRequest == [PreviousResponseID |-> 0, Input |-> <<>>]

\* ------------------------------------------------------------ the context
\* A context without a deadline (context.Background, WithCancel).
NoDeadline == -1

HasDeadline == deadline # NoDeadline

\* A context that forgets its deadline.
CtxDoneCancelOnly == cancelled

\* case <-ctx.Done(): the deadline has passed or cancel has been called.
CtxDone == cancelled \/ (HasDeadline /\ now >= deadline)

\* Time passing by d, as far as the context can tell.
Elapse(d) ==
    IF HasDeadline /\ now + d > deadline THEN deadline
    ELSE IF HasDeadline THEN now + d
    ELSE now

\* A call that took lat took longer than the deadline.
Slow(lat) == HasDeadline /\ lat > deadline

\* ------------------------------------------------------- the return paths
\* A return (or a panic unwinding) out of BrowserUse: the deferred Close runs
\* first when it has been registered.
\* What BrowserUse hands its caller on each exit path: the error value of
\* the return statement taken (nil after the loop, whether it ended by break
\* or by its condition), or the panic that unwinds through it.
ReturnValue(o) ==
    CASE o = "final" -> "nil"
      [] o = "exhausted" -> "nil"
      [] o = "cancelled" -> "context canceled"
      [] o = "open_error" -> "error opening browser"
      [] o = "api_error" -> "error calling OpenAI API"
      [] o = "action_error" -> "error executing browser action"
      [] o = "panic" -> "panic"

Exit(o) ==
    /\ outcome' = o
    /\ ret' = ReturnValue(o)
    /\ pc' = IF deferred THEN "defer" ELSE "done"

\* ------------------------------------------------------------- Init
\* The state at the call of BrowserUse(ctx, url, instruction, maxTurns), for
\* turn budgets in turns and deadlines in deadlines.
InitWith(turns, deadlines) ==
    /\ pc = "new"
    /\ maxTurns \in turns
    /\ i = 0
    /\ responseID = 0
    /\ callID = 0
    /\ callResp = NilOutput
    /\ resp = NoResponse
    /\ idx = 0
    /\ finalOutput = ""
    /\ browser = [connected |-> FALSE, page |-> FALSE, opens |-> 0, closes |-> 0]
    /\ deferred = FALSE
    /\ turnLog = <<>>
    /\ deadline \in deadlines
    /\ now = 0
    /\ cancelled = FALSE
    /\ lastReq = NoRequest
    /\ reqCount = 0
    /\ sentCallIDs = <<>>
    /\ svc = [lastID |-> 0]
    /\ env = [failed |-> FALSE, cause |-> "", allSlow |-> TRUE,
              answerItem |-> FALSE]
    /\ outcome = "running"
    /\ ret = "none"

Init == InitWith(0..MaxTurnsBound, {NoDeadline} \cup 0..MaxDeadline)

\* A run with one turn more than the bound, under a context without deadline.
InitLong == InitWith({MaxTurnsBound + 1}, {NoDeadline})

\* Runs of at least one turn under a context without a deadline.
InitKinds == InitWith(1..MaxTurnsBound, {NoDeadline})

\* ------------------------------------------------------------- browser
\* NewBrowser: rod.New().MustConnect() connects or panics.
NewBrowser ==
    /\ pc = "new"
    /\ \E ok \in BOOLEAN :
        IF ok
        THEN /\ browser' = [browser EXCEPT !.connected = TRUE]
             /\ pc' = "open"
             /\ UNCHANGED <<outcome, ret, env>>
        ELSE /\ Exit("panic")
             /\ env' = [env EXCEPT !.failed = TRUE, !.cause = "connect"]
             /\ UNCHANGED browser
    /\ UNCHANGED <<maxTurns, i, responseID, callID, callResp, resp, idx, finalOutput,
                   deferred, turnLog, deadline, now, cancelled, lastReq, reqCount,
                   sentCallIDs, svc>>

\* browser.Open(url), the error check after it and the defer registered once
\* it has passed.
OpenResults == {"ok", "error", "panic"}

\* The error of Open dropped: the run goes on without a page.
OpenIgnoringError ==
    /\ pc = "open"
    /\ \E r \in OpenResults :
        CASE r = "ok" ->
                /\ browser' = [browser EXCEPT !.page = TRUE, !.opens = @ + 1]
                /\ deferred' = TRUE
                /\ pc' = "check"
                /\ UNCHANGED <<outcome, ret, env>>
          [] r = "error" ->
                /\ browser' = [browser EXCEPT !.opens = @ + 1]
                /\ deferred' = TRUE
                /\ pc' = "check"
                /\ env' = [env EXCEPT !.failed = TRUE, !.cause = "open"]
                /\ UNCHANGED <<outcome, ret>>
          [] r = "panic" ->
                /\ Exit("panic")
                /\ browser' = [browser EXCEPT !.opens = @ + 1]
                /\ env' = [env EXCEPT !.failed = TRUE, !.cause = "open_panic"]
                /\ UNCHANGED deferred
    /\ UNCHANGED <<maxTurns, i, responseID, callID, callResp, resp, idx, finalOutput,
                   turnLog, deadline, now, cancelled, lastReq, reqCount,
                   sentCallIDs, svc>>

Open ==
    /\ pc = "open"
    /\ \E r \in OpenResults :
        CASE r = "ok" ->
                /\ browser' = [browser EXCEPT !.page = TRUE, !.opens = @ + 1]
                /\ deferred' = TRUE
                /\ pc' = "check"
                /\ UNCHANGED <<outcome, ret, env>>
          [] r = "error" ->
                /\ Exit("open_error")
                /\ browser' = [browser EXCEPT !.opens = @ + 1]
                /\ env' = [env EXCEPT !.failed = TRUE, !.cause = "open"]
                /\ UNCHANGED deferred
          [] r = "panic" ->
                /\ Exit("panic")
                /\ browser' = [browser EXCEPT !.opens = @ + 1]
                /\ env' = [env EXCEPT !.failed = TRUE, !.cause = "open_panic"]
                /\ UNCHANGED deferred
    /\ UNCHANGED <<maxTurns, i, responseID, callID, callResp, resp, idx, finalOutput,
                   turnLog, deadline, now, cancelled, lastReq, reqCount,
                   sentCallIDs, svc>>

\* The deferred browser.Close().
DeferredClose ==
    /\ pc = "defer"
    /\ browser' = [browser EXCEPT !.connected = FALSE, !.page = FALSE,
                                  !.closes = @ + 1]
    /\ pc' = "done"
    /\ UNCHANGED <<maxTurns, i, responseID, callID, callResp, resp, idx, finalOutput,
                   deferred, turnLog, deadline, now, cancelled, lastReq, reqCount,
                   sentCallIDs, svc, env, outcome, ret>>

\* ------------------------------------------------------------- the loop
\* The loop condition off by one.
LoopContinuesOffByOne == i <= maxTurns

\* for i := 0; i < maxTurns; i++
LoopContinues == i < maxTurns

\* The head of an iteration without the select on ctx.Done().
LoopHeadNoSelect ==
    /\ pc = "check"
    /\ IF ~LoopContinues
       THEN Exit("exhausted")
       ELSE /\ pc' = "send"
            /\ UNCHANGED <<outcome, ret>>
    /\ UNCHANGED <<maxTurns, i, responseID, callID, callResp, resp, idx, finalOutput,
                   browser, deferred, turnLog, deadline, now, cancelled, lastReq,
                   reqCount, sentCallIDs, svc, env>>

\* The head of an iteration: the loop condition, then the select on ctx.Done().
LoopHead ==
    /\ pc = "check"
    /\ IF ~LoopContinues
       THEN Exit("exhausted")
       ELSE IF CtxDone
            THEN Exit("cancelled")
            ELSE /\ pc' = "send"
                 /\ UNCHANGED <<outcome, ret>>
    /\ UNCHANGED <<maxTurns, i, responseID, callID, callResp, resp, idx, finalOutput,
                   browser, deferred, turnLog, deadline, now, cancelled, lastReq,
                   reqCount, sentCallIDs, svc, env>>

\* messages, as built at the top of an iteration.
GoalInput == [Type |-> "", Role |-> "user", Content |-> "instruction",
              CallID |-> 0, Output |-> NilOutput, AcknowledgedSafetyChecks |-> <<>>]

CallOutputInput(id, out) ==
    [Type |-> "computer_call_output", Role |-> "", Content |-> "",
     CallID |-> id, Output |-> out, AcknowledgedSafetyChecks |-> <<>>]

Messages ==
    IF responseID = 0
    THEN <<GoalInput>>
    ELSE <<CallOutputInput(callID, callResp)>>

\* A request that leaves the continuation token out.
RequestWithoutPrevious(id, input) == [PreviousResponseID |-> 0, Input |-> input]

\* The Request literal of Responses.
RequestOf(id, input) == [PreviousResponseID |-> id, Input |-> input]

\* Responses(model, responseID, messages) is entered: the request leaves.
SendRequest ==
    /\ pc = "send"
    /\ lastReq' = RequestOf(responseID, Messages)
    /\ reqCount' = reqCount + 1
    /\ sentCallIDs' = IF responseID = 0 THEN sentCallIDs
                      ELSE Append(sentCallIDs, callID)
    /\ pc' = "await"
    /\ UNCHANGED <<maxTurns, i, responseID, callID, callResp, resp, idx, finalOutput,
                   browser, deferred, turnLog, deadline, now, cancelled,
                   svc, env, outcome, ret>>

\* The outputs the service can answer with, call ids issued from base on.
IsAction(o) == o.action # NoAction
IsAnswerItem(o) == o.hasContent /\ o.role = "assistant"

\* The call id the service gives the action of item k of its n-th response,
\* and the id of that response: fresh ones, never "".
CallIDOf(n, k) == n * (MaxItems + 1) + k
ResponseIDOf(n) == n

WithCallIDs(out, n) ==
    [k \in 1..Len(out) |->
        IF IsAction(out[k])
        THEN [out[k] EXCEPT !.callID = CallIDOf(n, k)]
        ELSE out[k]]

Outputs == UNION {[1..n -> ItemShapes] : n \in 0..MaxItems}

\* Key names a keypress action can carry: both spellings of the Enter key in
\* two letter cases, another mapped key and a name outside the table.
KeyNames ==
    {<<"E", "n", "t", "e", "r">>, <<"R", "E", "T", "U", "R", "N">>,
     <<"r", "e", "t", "u", "r", "n">>, <<"f", "o", "o", "b", "a", "r">>,
     <<"T", "a", "b">>}

KeyLists == UNION {[1..n -> KeyNames] : n \in 0..MaxKeys}

\* Responses of one item: an action of every kind, a keypress with every key
\* list, or the final answer.
KindOutputs ==
    {<<ActionItem(k, FALSE)>> : k \in ActionKinds \ {"keypress"}}
    \cup {<<KeypressItem(ks)>> : ks \in KeyLists}
    \cup {<<MessageItem("assistant", <<ObjElem("hello")>>)>>}

HasAnswerItem(out) == \E k \in 1..Len(out) : IsAnswerItem(out[k])

\* Where the range loop over response.Output stands after moving to item k.
ScanPc(out, k) == IF k > Len(out) THEN "endturn" ELSE "scan"

\* client.Do(req) blocks until the service has answered.
ServiceLatency ==
    /\ pc = "await"
    /\ \E lat \in 0..MaxLatency :
        /\ now' = Elapse(lat)
        /\ env' = [env EXCEPT !.allSlow = @ /\ Slow(lat)]
    /\ pc' = "reply"
    /\ UNCHANGED <<maxTurns, i, responseID, callID, callResp, resp, idx, finalOutput,
                   browser, deferred, turnLog, deadline, cancelled, lastReq,
                   reqCount, sentCallIDs, svc, outcome, ret>>

\* A failed call answered by calling again.
ReceiveResponseRetrying(outs) ==
    /\ pc = "reply"
    /\ \/ /\ pc' = "send"
          /\ env' = [env EXCEPT !.failed = TRUE, !.cause = "api"]
          /\ UNCHANGED <<responseID, resp, idx, finalOutput, turnLog, svc,
                         outcome, ret>>
       \/ \E out \in outs :
            /\ resp' = [ID |-> ResponseIDOf(reqCount),
                        Output |-> WithCallIDs(out, reqCount)]
            /\ svc' = [lastID |-> ResponseIDOf(reqCount)]
            /\ env' = [env EXCEPT !.answerItem = @ \/ HasAnswerItem(out)]
            /\ responseID' = ResponseIDOf(reqCount)
            /\ finalOutput' = ""
            /\ idx' = 1
            /\ turnLog' = <<>>
            /\ pc' = ScanPc(out, 1)
            /\ UNCHANGED <<outcome, ret>>
    /\ UNCHANGED <<maxTurns, i, callID, callResp, browser, deferred, deadline, now,
                   cancelled, lastReq, reqCount, sentCallIDs>>

\* Responses returns: an error (transport, status, body), or the decoded
\* response, whose output is one of outs.
ReceiveResponseFrom(outs) ==
    /\ pc = "reply"
    /\ \/ /\ Exit("api_error")
          /\ env' = [env EXCEPT !.failed = TRUE, !.cause = "api"]
          /\ UNCHANGED <<responseID, resp, idx, finalOutput, turnLog, svc>>
       \/ \E out \in outs :
            /\ resp' = [ID |-> ResponseIDOf(reqCount),
                        Output |-> WithCallIDs(out, reqCount)]
            /\ svc' = [lastID |-> ResponseIDOf(reqCount)]
            /\ env' = [env EXCEPT !.answerItem = @ \/ HasAnswerItem(out)]
            /\ responseID' = ResponseIDOf(reqCount)
            /\ finalOutput' = ""
            /\ idx' = 1
            /\ turnLog' = <<>>
            /\ pc' = ScanPc(out, 1)
            /\ UNCHANGED <<outcome, ret>>
    /\ UNCHANGED <<maxTurns, i, callID, callResp, browser, deferred, deadline, now,
                   cancelled, lastReq, reqCount, sentCallIDs>>

ReceiveResponse == ReceiveResponseFrom(Outputs)

ReceiveKindResponse == ReceiveResponseFrom(KindOutputs)

\* ---------------------------------------------------------- Browser.Keypress
UpperCase == <<"A", "B", "C", "D", "E", "F", "G", "H", "I", "J", "K", "L", "M",
               "N", "O", "P", "Q", "R", "S", "T", "U", "V", "W", "X", "Y", "Z">>
LowerCase == <<"a", "b", "c", "d", "e", "f", "g", "h", "i", "j", "k", "l", "m",
               "n", "o", "p", "q", "r", "s", "t", "u", "v", "w", "x", "y", "z">>

ToLowerChar(c) ==
    IF \E j \in 1..Len(UpperCase) : UpperCase[j] = c
    THEN LowerCase[CHOOSE j \in 1..Len(UpperCase) : UpperCase[j] = c]
    ELSE c

\* strings.ToLower(key)
ToLower(key) == [j \in 1..Len(key) |-> ToLowerChar(key[j])]

\* The switch of Keypress on the lowered name: the input key handed to
\* keyb.Press, "" for the default case (the name is only printed).
KeyOf(name) ==
    CASE name = <<"e", "n", "t", "e", "r">> -> "Enter"
      [] name = <<"r", "e", "t", "u", "r", "n">> -> "Enter"
      [] name = <<"d", "e", "l", "e", "t", "e">> -> "Delete"
      [] name = <<"t", "a", "b">> -> "Tab"
      [] name = <<"e", "s", "c", "a", "p", "e">> -> "Escape"
      [] name = <<"l", "e", "f", "t">> -> "ArrowLeft"
      [] name = <<"r", "i", "g", "h", "t">> -> "ArrowRight"
      [] name = <<"u", "p">> -> "ArrowUp"
      [] name = <<"d", "o", "w", "n">> -> "ArrowDown"
      [] name = <<"p", "a", "g", "e", "_", "u", "p">> -> "PageUp"
      [] name = <<"p", "a", "g", "e", "_", "d", "o", "w", "n">> -> "PageDown"
      [] OTHER -> ""

Pressed(k) == k # ""

\* A batch that stops at the first name it does not know.
KeypressAborting(keys) ==
    LET mapped == [j \in 1..Len(keys) |-> KeyOf(ToLower(keys[j]))]
        known == {j \in 1..Len(keys) : \A h \in 1..j : Pressed(mapped[h])}
    IN  [j \in 1..Cardinality(known) |-> mapped[j]]

\* The keys Keypress(keys) presses, in order: the range loop over keys.
Keypress(keys) ==
    LET mapped == [j \in 1..Len(keys) |-> KeyOf(ToLower(keys[j]))]
    IN  SelectSeq(mapped, Pressed)

\* ------------------------------------------------------------ computerCall
\* The Browser methods the switch on action.Type calls, in order.
\* A switch with a case that calls the Drag stub.
PrimitivesWithDrag(kind) ==
    CASE kind = "type" -> <<"Type">>
      [] kind = "click" -> <<"Click">>
      [] kind = "scroll" -> <<"Scroll">>
      [] kind = "keypress" -> <<"Keypress">>
      [] kind = "drag" -> <<"Drag">>
      [] OTHER -> <<>>

Primitives(kind) ==
    CASE kind = "type" -> <<"Type">>
      [] kind = "click" -> <<"Click">>
      [] kind = "scroll" -> <<"Scroll">>
      [] kind = "keypress" -> <<"Keypress">>
      [] OTHER -> <<>>

\* Click, Scroll and Keypress go through rod's Must* calls, which panic on
\* failure; Type drops InsertText's error.
MayPanic(kind) == kind \in {"click", "scroll", "keypress"}

\* time.Sleep inside computerCall.
SleepOf(kind) == IF kind = "wait" THEN WaitDelay ELSE 0

\* dataURL(data): the fixed prefix and the base64 text of the screenshot.
dataURL(data) == [scheme |-> "data:image/png;base64", data |-> data]

\* How a call of computerCall can end.
CallResults(kind) ==
    {"ok", "screenshot_error", "url_panic"}
    \cup (IF MayPanic(kind) THEN {"primitive_panic"} ELSE {})

\* The Browser calls made by computerCall(b, action) on behalf of output item
\* k, up to the point where it ends with result r.
Entries(ms, k) == [j \in 1..Len(ms) |-> [m |-> ms[j], item |-> k]]

\* The calls of the switch for action a: the Browser method and, inside
\* Keypress, one keyb.Press per key pressed.
PressCalls(keys) ==
    LET ks == Keypress(keys) IN [j \in 1..Len(ks) |-> "Press " \o ks[j]]

BrowserCalls(a) ==
    Primitives(a.action)
    \o (IF a.action = "keypress" THEN PressCalls(a.keys) ELSE <<>>)

\* The capture made before the action's own calls.
CallTraceShotFirst(a, r) ==
    CASE r = "primitive_panic" -> BrowserCalls(a)
      [] r = "screenshot_error" -> <<"Screenshot">> \o BrowserCalls(a)
      [] OTHER -> <<"Screenshot">> \o BrowserCalls(a) \o <<"GetCurrentUrl">>

CallTrace(a, r) ==
    CASE r = "primitive_panic" -> BrowserCalls(a)
      [] r = "screenshot_error" -> BrowserCalls(a) \o <<"Screenshot">>
      [] OTHER -> BrowserCalls(a) \o <<"Screenshot", "GetCurrentUrl">>

\* The screen as captured while item k of the n-th response is executed.
ShotOf(n, k) == n * (MaxItems + 1) + k

\* The *ComputerOutput of a successful call; shot is the screenshot taken.
ComputerOutput(shot, id) ==
    [Type |-> "input_image", ImageURL |-> dataURL(shot),
     CurrentURL |-> "url", forCall |-> id]

\* ---------------------------------------------- scanning response.Output
\* An action skipped when the same response also carries an answer.
DispatchesUnlessAnswered(o) == IsAction(o) /\ ~HasAnswerItem(resp.Output)

\* An action held back while it has pending safety checks.
DispatchesIfNoSafety(o) == IsAction(o) /\ ~o.safety

\* if o.Action != nil
Dispatches(o) == IsAction(o)

\* A call id that is only set while none is held.
PendingCallKeepID(o, k) ==
    [callResp |-> ComputerOutput(ShotOf(reqCount, k), o.callID),
     callID |-> IF callID = 0 THEN o.callID ELSE callID]

\* callResp, err = computerCall(browser, o.Action) with a nil err, then
\* callID = o.CallID, for item o at position k.
PendingCall(o, k) ==
    [callResp |-> ComputerOutput(ShotOf(reqCount, k), o.callID),
     callID |-> o.callID]

\* A scan that goes on past an answer item.
ResumeWithoutBreak(o, k) == [pc |-> ScanPc(resp.Output, k + 1), idx |-> k + 1]

\* Where the range loop stands once item o at position k has been handled:
\* an assistant item with content breaks it.
Resume(o, k) ==
    IF IsAnswerItem(o)
    THEN [pc |-> "endturn", idx |-> k]
    ELSE [pc |-> ScanPc(resp.Output, k + 1), idx |-> k + 1]

\* One iteration of the range loop over response.Output.
ScanItem ==
    /\ pc = "scan"
    /\ LET o == resp.Output[idx] IN
       \E r \in (IF Dispatches(o) THEN CallResults(o.action) ELSE {"none"}) :
         /\ turnLog' = IF Dispatches(o)
                       THEN turnLog \o Entries(CallTrace(o, r), idx)
                       ELSE turnLog
         /\ now' = IF Dispatches(o) /\ r # "primitive_panic"
                   THEN Elapse(SleepOf(o.action)) ELSE now
         /\ CASE r = "screenshot_error" ->
                    /\ Exit("action_error")
                    /\ callResp' = NilOutput
                    /\ env' = [env EXCEPT !.failed = TRUE, !.cause = "screenshot"]
                    /\ UNCHANGED <<callID, finalOutput, idx>>
              [] r \in {"primitive_panic", "url_panic"} ->
                    /\ Exit("panic")
                    /\ env' = [env EXCEPT !.failed = TRUE,
                                 !.cause = IF r = "url_panic" THEN "location"
                                           ELSE "primitive"]
                    /\ UNCHANGED <<callID, callResp, finalOutput, idx>>
              [] OTHER ->
                    /\ IF Dispatches(o)
                       THEN /\ callResp' = PendingCall(o, idx).callResp
                            /\ callID' = PendingCall(o, idx).callID
                       ELSE UNCHANGED <<callID, callResp>>
                    /\ IF IsAnswerItem(o) /\ Len(o.content) = 0
                       THEN \* o.Content[0]: index out of range
                            /\ Exit("panic")
                            /\ env' = [env EXCEPT !.failed = TRUE, !.cause = "index"]
                            /\ UNCHANGED <<finalOutput, idx>>
                       ELSE /\ finalOutput' = IF IsAnswerItem(o)
                                              THEN Sprint(o.content[1])
                                              ELSE finalOutput
                            /\ idx' = Resume(o, idx).idx
                            /\ pc' = Resume(o, idx).pc
                            /\ UNCHANGED <<env, outcome, ret>>
    /\ UNCHANGED <<maxTurns, i, responseID, resp, browser, deferred, deadline,
                   cancelled, lastReq, reqCount, sentCallIDs, svc>>

\* After the range loop: leave on a final output, else sleep and i++.
EndTurn ==
    /\ pc = "endturn"
    /\ IF finalOutput # ""
       THEN /\ Exit("final")
            /\ UNCHANGED <<i, now>>
       ELSE /\ now' = Elapse(PacingDelay)
            /\ i' = i + 1
            /\ pc' = "check"
            /\ UNCHANGED <<outcome, ret>>
    /\ UNCHANGED <<maxTurns, responseID, callID, callResp, resp, idx, finalOutput,
                   browser, deferred, turnLog, deadline, cancelled, lastReq,
                   reqCount, sentCallIDs, svc, env>>

\* The caller's cancel function, callable at any moment of the run.
Cancel ==
    /\ pc # "done"
    /\ ~cancelled
    /\ cancelled' = TRUE
    /\ UNCHANGED <<pc, maxTurns, i, responseID, callID, callResp, resp, idx,
                   finalOutput, browser, deferred, turnLog, deadline, now, lastReq,
                   reqCount, sentCallIDs, svc, env, outcome, ret>>

Next ==
    \/ NewBrowser
    \/ Open
    \/ LoopHead
    \/ SendRequest
    \/ ServiceLatency
    \/ ReceiveResponse
    \/ ScanItem
    \/ EndTurn
    \/ DeferredClose
    \/ Cancel

Spec == Init /\ [][Next]_vars

SpecLong == InitLong /\ [][Next]_vars

\* The same loop with one item of any action kind in each response.
NextKinds ==
    \/ NewBrowser
    \/ Open
    \/ LoopHead
    \/ SendRequest
    \/ ServiceLatency
    \/ ReceiveKindResponse
    \/ ScanItem
    \/ EndTurn
    \/ DeferredClose
    \/ Cancel

SpecKinds == InitKinds /\ [][NextKinds]_vars

\* ================================================================ claims
Done == pc = "done"

\* No collaborator has failed, no answer item has been returned and the
\* context is not done (so it never was).
Undisturbed == ~env.failed /\ ~env.answerItem /\ ~CtxDone

\* C1: for every turn budget N >= 1, a run in which the service never returns
\* a final-answer item, no collaborator fails and the context is never done
\* makes exactly N request/response cycles and ends in exhaustion, returning
\* no error.
C1_ExhaustionAfterNTurns ==
    (Done /\ maxTurns >= 1 /\ Undisturbed)
        => /\ reqCount = maxTurns
           /\ i = maxTurns
           /\ resp.ID = ResponseIDOf(maxTurns)
           /\ outcome = "exhausted"
           /\ ret = "nil"

C1_Witness ==
    /\ Done
    /\ maxTurns = MaxTurnsBound
    /\ Undisturbed
    /\ outcome = "exhausted"
    /\ reqCount = MaxTurnsBound

\* C2: the result handed to the caller tells exhaustion from success: a run
\* that ends in exhaustion returns something else than a run that ends on a
\* final answer returns.
C2_ExhaustionDistinctFromSuccess ==
    (Done /\ maxTurns >= 1 /\ outcome = "exhausted") => ret # ReturnValue("final")

\* C3: the browser acquired by the invocation is released on every exit path,
\* a failed Open of the starting location included: it is never left open
\* when BrowserUse has returned.
C3_BrowserReleasedOnEveryExit ==
    (Done /\ outcome # "panic") => (~browser.connected /\ browser.closes = 1)

\* C4: every iteration starts with the check of the context, before a request
\* is built or sent and before any browser action; when the context is done
\* at that point the run ends there with the cancellation result, without a
\* service call or a browser action in that iteration, whatever budget is left.
C4_CancellationAtIterationStart ==
    [][ /\ (pc' = "send" /\ pc # "send") => (pc = "check" /\ ~CtxDone)
        /\ (reqCount' # reqCount) => (pc = "send" /\ reqCount = i)
        /\ (pc = "check" /\ pc' # "check" /\ LoopContinues /\ CtxDone)
              => /\ outcome' = "cancelled"
                 /\ ret' = "context canceled"
                 /\ pc' = "defer"
                 /\ reqCount' = reqCount
                 /\ turnLog' = turnLog
                 /\ browser' = browser ]_vars

C4_Witness ==
    /\ Done
    /\ outcome = "cancelled"
    /\ maxTurns = MaxTurnsBound
    /\ i = 1
    /\ reqCount = 1

\* C5 as stated: for every deadline D, when each service call takes longer
\* than D (nothing fails, no answer item arrives), the run ends in cancellation
\* after at most one turn.
C5_SlowCallsEndInCancellation ==
    (Done /\ HasDeadline /\ maxTurns >= 1 /\ env.allSlow
          /\ ~env.failed /\ ~env.answerItem)
        => (outcome = "cancelled" /\ reqCount <= 1)

\* C5 as amended: when each service call takes longer than the deadline D, at
\* most one service call is made; cancellation is only ever taken between
\* turns, with every request sent so far answered and its turn completed; and
\* when nothing fails and no answer item arrives the run ends in cancellation,
\* except that with a budget of 1 a run that got to make its one call ends in
\* exhaustion.
C5_SlowCallsAtMostOneTurn ==
    /\ (outcome = "cancelled") => (reqCount = i /\ pc \in {"defer", "done"})
    /\ (HasDeadline /\ env.allSlow) => reqCount <= 1
    /\ (Done /\ HasDeadline /\ env.allSlow /\ ~env.failed /\ ~env.answerItem)
          => outcome = IF maxTurns = 1 /\ reqCount = 1 THEN "exhausted"
                       ELSE IF maxTurns = 0 THEN "exhausted"
                       ELSE "cancelled"

C5_Witness ==
    /\ Done
    /\ HasDeadline /\ deadline >= 1
    /\ env.allSlow /\ ~env.failed /\ ~env.answerItem
    /\ ~cancelled
    /\ maxTurns = MaxTurnsBound
    /\ reqCount = 1
    /\ outcome = "cancelled"

\* The output items on whose behalf the browser has been called this turn.
ExecutedItems == {turnLog[j].item : j \in 1..Len(turnLog)}

\* C6: in each turn at most one action is dispatched: of the action items of
\* one response only the first is executed.
C6_OneActionPerTurn ==
    /\ Cardinality(ExecutedItems) <= 1
    /\ \A k \in ExecutedItems : \A j \in 1..(k - 1) : ~IsAction(resp.Output[j])

\* An answer item whose first content element renders as a non-empty text.
IsFinalAnswer(o) ==
    IsAnswerItem(o) /\ Len(o.content) > 0 /\ Sprint(o.content[1]) # ""

\* The response opens with a click action followed by a final answer.
ClickThenAnswer(out) ==
    /\ Len(out) >= 2
    /\ out[1].action = "click"
    /\ IsFinalAnswer(out[2])

Logged(m, k) == \E j \in 1..Len(turnLog) : turnLog[j] = [m |-> m, item |-> k]

\* C7: when a response's first item is a click action and its second a final
\* answer, the click has been made on the browser by the time the loop ends
\* on the answer, and no request follows that response.
C7_ClickBeforeAnswer ==
    ClickThenAnswer(resp.Output) =>
        /\ reqCount = resp.ID
        /\ pc \in {"scan", "endturn", "defer", "done"}
        /\ (pc = "endturn" \/ outcome = "final") =>
              /\ Logged("Click", 1)
              /\ finalOutput = Sprint(resp.Output[2].content[1])
        /\ (Done /\ ~env.failed) => outcome = "final"

C7_Witness ==
    /\ ClickThenAnswer(resp.Output)
    /\ Done
    /\ outcome = "final"
    /\ Logged("Click", 1)

\* C8: a call id received from the service is sent back in at most one
\* computer_call_output input of the run; in particular it is not sent again
\* after a turn whose response carried neither an action nor a final answer.
C8_CallIDConsumedOnce ==
    \A a, b \in 1..Len(sentCallIDs) :
        (a # b /\ sentCallIDs[a] # 0) => sentCallIDs[a] # sentCallIDs[b]

\* C9: the first request carries the goal as its only input and no
\* continuation token; every later request carries as its only input the
\* observation of the prior turn's action under the call id of that action,
\* never the goal, an empty call id or no observation.
C9_RequestInputs ==
    reqCount >= 1 =>
        /\ Len(lastReq.Input) = 1
        /\ IF reqCount = 1
           THEN /\ lastReq.Input[1] = GoalInput
                /\ lastReq.PreviousResponseID = 0
           ELSE /\ lastReq.Input[1].Type = "computer_call_output"
                /\ lastReq.Input[1].CallID # 0
                /\ lastReq.Input[1].Output # NilOutput
                /\ lastReq.Input[1].Output.forCall = lastReq.Input[1].CallID

\* C10: a response with an assistant item carrying content ends the loop in
\* that turn, whatever the content: no request follows that response.
C10_AnswerItemEndsLoop ==
    HasAnswerItem(resp.Output) => reqCount = resp.ID

\* The Browser calls made for output item k of the current response, in order.
ItemLog(k) ==
    LET OfItem(e) == e.item = k
        es == SelectSeq(turnLog, OfItem)
    IN [j \in 1..Len(es) |-> es[j].m]

\* Output item k of the current response is an action whose execution has
\* completed.
Executed(k) == k \in 1..Len(resp.Output) /\ k < idx /\ IsAction(resp.Output[k])

\* C11: every executed action, whatever its kind (screenshot, type, click,
\* scroll, keypress, wait or an unrecognized one), yields exactly one
\* Observation: its own browser calls come first, then exactly one screenshot
\* and one location read, and both are returned under the action's call id.
C11_OneObservationPerAction ==
    \A k \in 1..Len(resp.Output) :
        Executed(k) =>
            LET log == ItemLog(k)
                n == Len(log)
            IN /\ n >= 2
               /\ log[n - 1] = "Screenshot"
               /\ log[n] = "GetCurrentUrl"
               /\ \A j \in 1..(n - 2) : log[j] \notin {"Screenshot", "GetCurrentUrl"}
               /\ callResp = [Type |-> "input_image",
                              ImageURL |-> [scheme |-> "data:image/png;base64",
                                            data |-> ShotOf(resp.ID, k)],
                              CurrentURL |-> "url",
                              forCall |-> resp.Output[k].callID]

C11_Witness ==
    /\ Executed(1)
    /\ resp.Output[1].action = "scroll"
    /\ ItemLog(1) = <<"Scroll", "Screenshot", "GetCurrentUrl">>
    /\ callResp # NilOutput

\* C12: a failure of the screenshot capture or of the location read after an
\* action is fatal: BrowserUse hands its caller an error value, the capture
\* is not made again and no further request is sent.
C12_CaptureFailureIsErrorValue ==
    env.cause \in {"screenshot", "location"} =>
        /\ outcome = "action_error"
        /\ ret \notin {"nil", "panic"}
        /\ reqCount = resp.ID
        /\ \A k \in ExecutedItems :
              Len(SelectSeq(ItemLog(k), LAMBDA m : m = "Screenshot")) <= 1

\* A response made of actions of the unrecognized kind only.
DragOnly(out) == Len(out) >= 1 /\ \A k \in 1..Len(out) : out[k].action = "drag"

\* C13: an action of the unrecognized kind "drag" makes no page-mutating
\* browser call, still yields the captured Observation (screenshot, then
\* location), and does not abort the run: unless the capture itself fails
\* the run goes on, and the next request carries that Observation.
C13_UnrecognizedKindIsNoOp ==
    /\ \A k \in 1..Len(resp.Output) :
          resp.Output[k].action = "drag" =>
              /\ \A j \in 1..Len(ItemLog(k)) :
                    ItemLog(k)[j] \in {"Screenshot", "GetCurrentUrl"}
              /\ Executed(k) => ItemLog(k) = <<"Screenshot", "GetCurrentUrl">>
    /\ (DragOnly(resp.Output) /\ ~env.failed) =>
          /\ outcome \in {"running", "exhausted", "cancelled"}
          /\ outcome = "exhausted" => i = maxTurns
          /\ outcome = "cancelled" => CtxDone
          /\ reqCount > resp.ID =>
                /\ lastReq.Input[1].CallID = resp.Output[Len(resp.Output)].callID
                /\ lastReq.Input[1].Output.Type = "input_image"

C13_Witness ==
    /\ DragOnly(resp.Output)
    /\ Len(resp.Output) = 1
    /\ ItemLog(1) = <<"Screenshot", "GetCurrentUrl">>
    /\ reqCount = resp.ID + 1
    /\ lastReq.Input[1].CallID = resp.Output[1].callID

\* The key press the claim expects of one key name, spelled out name by name.
ExpectedPress(name) ==
    IF name \in {<<"E", "n", "t", "e", "r">>, <<"R", "E", "T", "U", "R", "N">>,
                 <<"r", "e", "t", "u", "r", "n">>}
    THEN <<"Press Enter">>
    ELSE IF name = <<"T", "a", "b">> THEN <<"Press Tab">> ELSE <<>>

RECURSIVE ExpectedPresses(_)
ExpectedPresses(keys) ==
    IF keys = <<>> THEN <<>>
    ELSE ExpectedPress(Head(keys)) \o ExpectedPresses(Tail(keys))

\* C14: in a keypress action "Enter" and "return", in any letter case, press
\* the same key, and an unrecognized name such as "foobar" is skipped without
\* ending the batch: the recognized keys before and after it are all pressed,
\* in list order.
C14_KeyNamesMapped ==
    \A k \in 1..Len(resp.Output) :
        (Executed(k) /\ resp.Output[k].action = "keypress") =>
            ItemLog(k) = <<"Keypress">> \o ExpectedPresses(resp.Output[k].keys)
                         \o <<"Screenshot", "GetCurrentUrl">>

C14_Witness ==
    /\ Executed(1)
    /\ resp.Output[1].keys = << <<"T", "a", "b">>,
                                <<"f", "o", "o", "b", "a", "r">>,
                                <<"R", "E", "T", "U", "R", "N">> >>
    /\ ItemLog(1) = <<"Keypress", "Press Tab", "Press Enter",
                      "Screenshot", "GetCurrentUrl">>

\* C15: a failed Decision Service call is fatal: BrowserUse returns the error
\* "error calling OpenAI API" wrapping the cause, and from the failure on it
\* sends no request again (no retry, no further call) and makes no browser
\* call other than the deferred Close.
C15_ServiceFailureIsFatal ==
    [][/\ env'.cause = "api" =>
            /\ outcome' = "api_error"
            /\ ret' = "error calling OpenAI API"
            /\ pc' \in {"defer", "done"}
       /\ env.cause = "api" =>
            /\ reqCount' = reqCount
            /\ lastReq' = lastReq
            /\ turnLog' = turnLog
            /\ browser'.opens = browser.opens]_vars

C15_Witness ==
    /\ env.cause = "api"
    /\ Done
    /\ reqCount = 2
    /\ ExecutedItems # {}
    /\ ret = "error calling OpenAI API"

\* The first response carries one item only: the final answer "hello", as the
\* service's JSON decodes it (an output_text content object).
HelloOnly ==
    /\ resp.ID = ResponseIDOf(1)
    /\ resp.Output = <<MessageItem("assistant", <<ObjElem("hello")>>)>>

\* C16: when the first response holds only a final-answer item with the text
\* "hello", the loop makes exactly one turn, its final answer is "hello", and
\* Close is called exactly once.
C16_HelloScenario ==
    (HelloOnly /\ Done) =>
        /\ reqCount = 1
        /\ finalOutput = "hello"
        /\ browser.closes = 1

\* C17: the scan of a response's items stops at the first final-answer item:
\* no action item that comes after it in the same response is executed.
C17_ScanStopsAtAnswer ==
    \A k \in ExecutedItems :
        \A j \in 1..(k - 1) :
            ~(resp.Output[j].hasContent /\ resp.Output[j].role = "assistant")

C17_Witness ==
    /\ Len(resp.Output) = 2
    /\ IsFinalAnswer(resp.Output[1])
    /\ resp.Output[2].action = "click"
    /\ outcome = "final"
    /\ Done
    /\ ExecutedItems = {}

\* C18: the continuation token is threaded unchanged: the first request of a
\* run carries no previous-response id, and every later request carries
\* exactly the id returned by the response immediately before it.
C18_ContinuationToken ==
    reqCount >= 1 =>
        /\ lastReq.PreviousResponseID =
              IF reqCount = 1 THEN 0 ELSE ResponseIDOf(reqCount - 1)
        /\ pc \in {"await", "reply"} => lastReq.PreviousResponseID = svc.lastID

C18_Witness ==
    /\ reqCount = 2
    /\ pc = "await"
    /\ svc.lastID # 0
    /\ lastReq.PreviousResponseID = svc.lastID

\* C19: pending safety checks on an action item never block and are never
\* acknowledged: the action is executed in its turn like any other and its
\* observation sent back, and no request carries acknowledged safety checks.
C19_SafetyChecksIgnored ==
    /\ \A j \in 1..Len(lastReq.Input) :
          lastReq.Input[j].AcknowledgedSafetyChecks = <<>>
    /\ \A k \in 1..Len(resp.Output) :
          (Executed(k) /\ resp.Output[k].safety) =>
              ItemLog(k) = <<"Click", "Screenshot", "GetCurrentUrl">>
    /\ (Len(resp.Output) = 1 /\ resp.Output[1].safety /\ reqCount > resp.ID) =>
          lastReq.Input[1].CallID = resp.Output[1].callID

C19_Witness ==
    /\ Len(resp.Output) = 1
    /\ resp.Output[1].safety
    /\ Logged("Click", 1)
    /\ reqCount = resp.ID + 1
    /\ lastReq.Input[1].CallID = resp.Output[1].callID
    /\ lastReq.Input[1].AcknowledgedSafetyChecks = <<>>

\* C20: when the initial Open fails the run aborts before any turn: with the
\* error "error opening browser" when Open returns an error (by panic when
\* the viewport or wait-stable step fails), without any service call, any
\* action, or a second call of Open.
C20_OpenFailureAborts ==
    env.cause \in {"open", "open_panic"} =>
        /\ pc = "done"
        /\ env.cause = "open" =>
              outcome = "open_error" /\ ret = "error opening browser"
        /\ env.cause = "open_panic" => outcome = "panic"
        /\ i = 0
        /\ reqCount = 0
        /\ lastReq = NoRequest
        /\ turnLog = <<>>
        /\ browser.opens = 1

C20_Witness ==
    /\ env.cause = "open"
    /\ Done
    /\ ret = "error opening browser"
    /\ maxTurns >= 1
    /\ reqCount = 0
    /\ browser.opens = 1

\* The call id and the observation come from the same executed output item:
\* item k of response n carried the id, and the observation holds the
\* screenshot taken while that item was executed.
BelongTogether(id, out) ==
    /\ out.Type = "input_image"
    /\ out.forCall = id
    /\ \E n \in 1..reqCount : \E k \in 1..MaxItems :
          id = CallIDOf(n, k) /\ out.ImageURL.data = ShotOf(n, k)

\* C21: whenever BrowserUse builds a computer_call_output input, its call id
\* and its observation belong together: the observation was produced by
\* executing the action of the output item that carried that call id, or
\* both still hold their initial empty values.
C21_CallIDAndObservationPaired ==
    /\ \A j \in 1..Len(lastReq.Input) :
          lastReq.Input[j].Type = "computer_call_output" =>
              \/ lastReq.Input[j].CallID = 0 /\ lastReq.Input[j].Output = NilOutput
              \/ BelongTogether(lastReq.Input[j].CallID, lastReq.Input[j].Output)
    /\ pc = "send" =>
          \/ callID = 0 /\ callResp = NilOutput
          \/ BelongTogether(callID, callResp)

C21_Witness ==
    /\ pc = "await"
    /\ reqCount = 2
    /\ Len(resp.Output) = 2
    /\ IsAction(resp.Output[1])
    /\ IsAction(resp.Output[2])
    /\ lastReq.Input[1].Type = "computer_call_output"
    /\ lastReq.Input[1].CallID = resp.Output[2].callID
    /\ lastReq.Input[1].Output.forCall = resp.Output[2].callID

====
